---- MODULE Spec2Model ----
(***************************************************************************)
(* A model of verify_formula.py, the verification script of the phi-BBP    *)
(* formula: the series evaluators, the seven verify_* checks, main() and   *)
(* the process exit status, together with the one piece of process-wide    *)
(* mutable state they share, the mpmath working precision mp.dps; and of   *)
(* figure3_closed_form, the grid search of generate_figures.py.            *)
(*                                                                         *)
(* Numbers.  An mpf value, and a Python float, is a signed fixed-point     *)
(* number [neg, mag]: mag is a sequence of limbs in base LimbBase, the     *)
(* first IntLimbs of them the integer part and the rest the fraction.  An  *)
(* mpf computed while mp.dps = d carries Limbs(d) fraction limbs, that is  *)
(* at least d decimal places; every operation truncates toward zero, so    *)
(* its result is within one unit in the last place of the exact one.  A    *)
(* Python float carries FloatLimbs fraction limbs.                         *)
(***************************************************************************)
EXTENDS Integers, Sequences, FiniteSets, TLC

LimbBase == 10000

IntLimbs == 5

FloatLimbs == 6

\* Binary digits of a logarithm's fraction.
LogBits == 24

\* Fraction limbs that carry at least d decimal digits.
Limbs(d) == (d + 3) \div 4

(***************************************************************************)
(* Magnitudes: sequences of limbs, most significant first.                 *)
(***************************************************************************)
MagZero(n) == [i \in 1..n |-> 0]

MagIsZero(x) == \A i \in 1..Len(x) : x[i] = 0

MagLess(x, y) ==
    \E i \in 1..Len(x) : x[i] < y[i] /\ \A j \in 1..(i - 1) : x[j] = y[j]

\* Limbs lo..hi of x + y with carry cin into limb hi: the limbs s and the
\* carry c out of limb lo.  (The ranges are halved, which keeps the depth of
\* the evaluation logarithmic in the number of limbs.)
RECURSIVE MagAddRange(_, _, _, _, _)
MagAddRange(x, y, lo, hi, cin) ==
    IF lo = hi
    THEN LET t == x[lo] + y[lo] + cin
         IN  [s |-> <<t % LimbBase>>, c |-> t \div LimbBase]
    ELSE LET mid == (lo + hi) \div 2
             R   == MagAddRange(x, y, mid + 1, hi, cin)
             L0  == MagAddRange(x, y, lo, mid, 0)
             L1  == MagAddRange(x, y, lo, mid, 1)
         IN  IF R.c = 0 THEN [s |-> L0.s \o R.s, c |-> L0.c]
             ELSE [s |-> L1.s \o R.s, c |-> L1.c]

\* x + y; a carry out of the first limb is lost.
MagAdd(x, y) == MagAddRange(x, y, 1, Len(x), 0).s

RECURSIVE MagSubRange(_, _, _, _, _)
MagSubRange(x, y, lo, hi, bin) ==
    IF lo = hi
    THEN LET t == x[lo] - y[lo] - bin
         IN  IF t < 0 THEN [s |-> <<t + LimbBase>>, c |-> 1]
             ELSE [s |-> <<t>>, c |-> 0]
    ELSE LET mid == (lo + hi) \div 2
             R   == MagSubRange(x, y, mid + 1, hi, bin)
             L0  == MagSubRange(x, y, lo, mid, 0)
             L1  == MagSubRange(x, y, lo, mid, 1)
         IN  IF R.c = 0 THEN [s |-> L0.s \o R.s, c |-> L0.c]
             ELSE [s |-> L1.s \o R.s, c |-> L1.c]

\* x - y for x >= y.
MagSub(x, y) == MagSubRange(x, y, 1, Len(x), 0).s

RECURSIVE MagMulRange(_, _, _, _, _)
MagMulRange(x, m, lo, hi, cin) ==
    IF lo = hi
    THEN LET t == x[lo] * m + cin
         IN  [s |-> <<t % LimbBase>>, c |-> t \div LimbBase]
    ELSE LET mid == (lo + hi) \div 2
             R   == MagMulRange(x, m, mid + 1, hi, cin)
             L0  == MagMulRange(x, m, lo, mid, 0)
             L   == MagMulRange(x, m, lo, mid, R.c)
         IN  IF R.c = 0 THEN [s |-> L0.s \o R.s, c |-> L0.c]
             ELSE [s |-> L.s \o R.s, c |-> L.c]

\* x * m for one limb m; a carry out of the first limb is lost.
MagMulLimb(x, m) == MagMulRange(x, m, 1, Len(x), 0).s

\* Limbs lo..hi of x / d, with remainder rin from the limbs before lo: the
\* quotient limbs q and the remainder r after limb hi.
RECURSIVE MagDivRange(_, _, _, _, _)
MagDivRange(x, d, lo, hi, rin) ==
    IF lo = hi
    THEN LET cur == rin * LimbBase + x[lo]
         IN  [q |-> <<cur \div d>>, r |-> cur % d]
    ELSE LET mid == (lo + hi) \div 2
             L   == MagDivRange(x, d, lo, mid, rin)
             R   == MagDivRange(x, d, mid + 1, hi, L.r)
         IN  [q |-> L.q \o R.q, r |-> R.r]

\* x / d truncated, for an integer 0 < d < 2^31 / LimbBase.
MagDivInt(x, d) == MagDivRange(x, d, 1, Len(x), 0).q

\* Row i of the product a * b: b * a[i], moved to the weight of limb i.
MagMulRow(a, b, i) ==
    LET n == Len(b)
        P == MagMulLimb(<<0>> \o b, a[i])
    IN  [j \in 1..n |->
            LET t == j - i + IntLimbs + 1
            IN  IF t >= 1 /\ t <= n + 1 THEN P[t] ELSE 0]

\* The sum of the rows lo..hi of a * b.
RECURSIVE MagMulRows(_, _, _, _)
MagMulRows(a, b, lo, hi) ==
    IF lo = hi
    THEN IF a[lo] = 0 THEN MagZero(Len(b)) ELSE MagMulRow(a, b, lo)
    ELSE LET mid == (lo + hi) \div 2
         IN  MagAdd(MagMulRows(a, b, lo, mid), MagMulRows(a, b, mid + 1, hi))

\* a * b truncated, both with the same number of limbs.
MagMul(a, b) == MagMulRows(a, b, 1, Len(a))

\* The largest q in lo..hi with q * b <= r.
RECURSIVE MagQuotLimb(_, _, _, _)
MagQuotLimb(r, b, lo, hi) ==
    IF lo = hi THEN lo
    ELSE LET mid == (lo + hi + 1) \div 2
         IN  IF MagLess(r, MagMulLimb(b, mid))
             THEN MagQuotLimb(r, b, lo, mid - 1)
             ELSE MagQuotLimb(r, b, mid, hi)

\* Long division of the limbs lo..hi of D by b1, with remainder rin from the
\* limbs before lo: the quotient limbs q and the remainder r.
RECURSIVE MagDivLong(_, _, _, _, _)
MagDivLong(D, b1, lo, hi, rin) ==
    IF lo = hi
    THEN LET r1 == Tail(rin) \o <<D[lo]>>
             q  == MagQuotLimb(r1, b1, 0, LimbBase - 1)
         IN  [q |-> <<q>>, r |-> MagSub(r1, MagMulLimb(b1, q))]
    ELSE LET mid == (lo + hi) \div 2
             L   == MagDivLong(D, b1, lo, mid, rin)
             R   == MagDivLong(D, b1, mid + 1, hi, L.r)
         IN  [q |-> L.q \o R.q, r |-> R.r]

\* a / b truncated for b # 0, both with n limbs of which f are fraction.
MagDiv(a, b, f) ==
    LET n == Len(a)
        Q == MagDivLong(a \o MagZero(f), <<0>> \o b, 1, n + f, MagZero(n + 1)).q
    IN  [i \in 1..n |-> Q[i + f]]

(***************************************************************************)
(* Signed fixed-point numbers.                                             *)
(***************************************************************************)
Fx(neg, mag) == [neg |-> neg /\ ~MagIsZero(mag), mag |-> mag]

FracLimbs(a) == Len(a.mag) - IntLimbs

\* The integer n, |n| < LimbBase^2, with f fraction limbs: mpf(n), float(n).
FxFromInt(n, f) ==
    LET m == IF n < 0 THEN -n ELSE n
    IN  Fx(n < 0, [i \in 1..(IntLimbs + f) |->
                      IF i = IntLimbs THEN m % LimbBase
                      ELSE IF i = IntLimbs - 1 THEN m \div LimbBase
                      ELSE 0])

FxZero(f) == FxFromInt(0, f)

\* A literal: integer part ip, fraction limbs digits, cut or padded to f limbs.
FxLit(neg, ip, digits, f) ==
    Fx(neg, [i \in 1..(IntLimbs + f) |->
                IF i = IntLimbs THEN ip % LimbBase
                ELSE IF i = IntLimbs - 1 THEN ip \div LimbBase
                ELSE IF i > IntLimbs /\ i - IntLimbs <= Len(digits)
                     THEN digits[i - IntLimbs]
                ELSE 0])

\* a carried with f fraction limbs.
FxRound(a, f) ==
    Fx(a.neg, [i \in 1..(IntLimbs + f) |->
                  IF i <= Len(a.mag) THEN a.mag[i] ELSE 0])

FxNeg(a) == Fx(~a.neg, a.mag)

FxAbs(a) == Fx(FALSE, a.mag)

FxIsZero(a) == MagIsZero(a.mag)

FxAdd(a, b) ==
    IF a.neg = b.neg THEN Fx(a.neg, MagAdd(a.mag, b.mag))
    ELSE IF MagLess(a.mag, b.mag) THEN Fx(b.neg, MagSub(b.mag, a.mag))
    ELSE Fx(a.neg, MagSub(a.mag, b.mag))

FxSub(a, b) == FxAdd(a, FxNeg(b))

FxLess(a, b) ==
    IF a.neg # b.neg THEN a.neg
    ELSE IF a.neg THEN MagLess(b.mag, a.mag)
    ELSE MagLess(a.mag, b.mag)

\* a / d for an integer d # 0.
FxDivInt(a, d) ==
    IF d < 0 THEN Fx(~a.neg, MagDivInt(a.mag, -d))
    ELSE Fx(a.neg, MagDivInt(a.mag, d))

\* a * c for an integer 0 <= c < LimbBase.
FxMulInt(a, c) == Fx(a.neg, MagMulLimb(a.mag, c))

FxMul(a, b) == Fx(a.neg # b.neg, MagMul(a.mag, b.mag))

FxDiv(a, b) == Fx(a.neg # b.neg, MagDiv(a.mag, b.mag, FracLimbs(a)))

\* x = m * 10^e with 1 <= m < 10, for x > 0.
RECURSIVE LogNorm(_, _)
LogNorm(m, e) ==
    IF ~FxLess(m, FxFromInt(10, FracLimbs(m)))
    THEN LogNorm(FxDivInt(m, 10), e + 1)
    ELSE IF FxLess(m, FxFromInt(1, FracLimbs(m)))
    THEN LogNorm(FxMulInt(m, 10), e - 1)
    ELSE [m |-> m, e |-> e]

\* The first j binary digits of log10(m), 1 <= m < 10, the next one worth
\* half: squaring m doubles its logarithm.
RECURSIVE LogFraction(_, _, _)
LogFraction(m, j, half) ==
    IF j = 0 THEN FxZero(FracLimbs(m))
    ELSE LET sq == FxMul(m, m)
         IN  IF FxLess(sq, FxFromInt(10, FracLimbs(m)))
             THEN LogFraction(sq, j - 1, FxDivInt(half, 2))
             ELSE FxAdd(half, LogFraction(FxDivInt(sq, 10), j - 1, FxDivInt(half, 2)))

\* np.log10(x) for x > 0.
FxLog10(x) ==
    LET n == LogNorm(x, 0)
        f == FracLimbs(x)
    IN  FxAdd(FxFromInt(n.e, f),
              LogFraction(n.m, LogBits, FxLit(FALSE, 0, <<5000>>, f)))

(***************************************************************************)
(* The formula's constants.                                                *)
(***************************************************************************)
INT_COEFS == <<256, -32, 4, 1, -128, -64, -128, 4>>

\* The eight corrections: the exact decimal expansions of the doubles the
\* literals denote (mpf(float) converts a double exactly), as fraction limbs.
PHI_CORRECTIONS ==
    << [neg |-> FALSE,
        digits |-> <<210, 1370, 7249, 6939, 1437, 5088, 2550, 4210, 1081,
                     9263, 7562, 7517, 7001, 9531, 2500>>],
       [neg |-> TRUE,
        digits |-> <<471, 1356, 8832, 7324, 8863, 3752, 1547, 8299, 6512,
                     9494, 6670, 5322, 2656, 2500>>],
       [neg |-> FALSE,
        digits |-> <<70, 4307, 5951, 9842, 4771, 2323, 395, 3638, 6204,
                     4177, 9494, 2855, 8349, 6093, 7500>>],
       [neg |-> FALSE,
        digits |-> <<131, 8156, 1904, 2774, 1125, 6813, 9344, 1482, 2142,
                     5712, 1086, 1206, 546, 8750>>],
       [neg |-> FALSE,
        digits |-> <<732, 6301, 1134, 8711, 7266, 9313, 9212, 3296, 9732,
                     9550, 9815, 2160, 6445, 3125>>],
       [neg |-> TRUE,
        digits |-> <<1023, 4611, 4400, 4640, 5272, 9411, 4349, 3881, 998,
                     5738, 9926, 9104, 39, 625>>],
       [neg |-> TRUE,
        digits |-> <<1533, 5229, 4762, 7369, 2927, 8901, 2433, 7864, 1083,
                     8365, 5548, 957, 312, 5000>>],
       [neg |-> FALSE,
        digits |-> <<476, 7199, 4116, 5622, 5516, 1539, 9515, 8674, 6610,
                     7010, 8413, 6962, 8906, 2500>>] >>

\* Slot structure: <<period, offset>>.
SLOTS == << <<4, 1>>, <<4, 3>>, <<12, 1>>, <<12, 3>>,
            <<12, 5>>, <<12, 7>>, <<12, 9>>, <<12, 11>> >>

Radix == 4096

ScaleFactor == 64

\* mpmath's precision before any assignment to mp.dps.
DefaultDps == 15

\* The fraction of pi, 304 decimal places.
PiDigits ==
    <<1415, 9265, 3589, 7932, 3846, 2643, 3832, 7950, 2884, 1971, 6939, 9375,
      1058, 2097, 4944, 5923, 781, 6406, 2862, 899, 8628, 348, 2534, 2117,
      679, 8214, 8086, 5132, 8230, 6647, 938, 4460, 9550, 5822, 3172, 5359,
      4081, 2848, 1117, 4502, 8410, 2701, 9385, 2110, 5559, 6446, 2294, 8954,
      9303, 8196, 4428, 8109, 7566, 5933, 4461, 2847, 5648, 2337, 8678, 3165,
      2712, 190, 9145, 6485, 6692, 3460, 3486, 1045, 4326, 6482, 1339, 3607,
      2602, 4914, 1273, 7245>>

\* mp_pi read while the working precision carries f fraction limbs.
MpPi(f) == FxLit(FALSE, 3, PiDigits, f)

\* float(x): the value x as a Python float.
ToFloat(a) == FxRound(a, FloatLimbs)

(***************************************************************************)
(* State.                                                                  *)
(***************************************************************************)
VARIABLES
    dps,      \* mp.dps, the ambient working precision
    pc,       \* where control is: "idle", "eval", "acc", "main", "returned",
              \* "exited"
    ev,       \* the running evaluator call's frame, or NoFrame
    acc,      \* verify_accuracy's frame while it runs its evaluations
    last,     \* what the last completed call returned and reported
    ref,      \* one earlier evaluator call kept for comparison (none is kept
              \* across a run of main), or NoCall
    arith,    \* the mpf arithmetic of the last step: {[op, want, got]}
    results,  \* main's results list: <<name, passed>> pairs
    script,   \* TRUE while main runs from the __main__ block
    exit,     \* the process exit status, NoExit while it runs
    fig3      \* what figure3_closed_form last drew, or NoFigure

vars == <<dps, pc, ev, acc, last, ref, arith, results, script, exit, fig3>>

NoFrame == [fn |-> "none"]

NoCall == [op |-> "none"]

NoExit == -1

NoFigure == [op |-> "none"]

(***************************************************************************)
(* evaluate_phi_bbp and evaluate_integer_only.                             *)
(***************************************************************************)
\* An evaluator that leaves mp.dps as it finds it.
AmbientDps(ambient, precision) == ambient

\* An evaluator that raises mp.dps to its precision but never lowers it.
MaxDps(ambient, precision) == IF ambient > precision THEN ambient ELSE precision

\* mp.dps = precision: the ambient precision after the evaluator's first line.
EvaluatorDps(ambient, precision) == precision

\* effective_coefs = [mpf(INT_COEFS[i]) + mpf(PHI_CORRECTIONS[i]) ...]
EffectiveCoefsWith(corrections, f) ==
    [i \in 1..8 |->
        FxAdd(FxFromInt(INT_COEFS[i], f),
              FxLit(corrections[i].neg, 0, corrections[i].digits, f))]

EffectiveCoefs(f) == EffectiveCoefsWith(PHI_CORRECTIONS, f)

\* An integer-only formula that takes the coefficients without their signs.
AbsCoef(fn, coefs, i, f) ==
    IF fn = "evaluate_phi_bbp" THEN coefs[i]
    ELSE FxAbs(FxFromInt(INT_COEFS[i], f))

\* The coefficient of slot i: effective_coefs[i], or mpf(coef) of INT_COEFS.
SlotCoef(fn, coefs, i, f) ==
    IF fn = "evaluate_phi_bbp" THEN coefs[i] ELSE FxFromInt(INT_COEFS[i], f)

\* Denominators whose offsets are counted from zero.
OffsetFromZero(i, k) == SLOTS[i][1] * k + SLOTS[i][2] - 1

\* denom = period * k + offset, for slot i = (period, offset)
Denom(i, k) == SLOTS[i][1] * k + SLOTS[i][2]

\* Whether slot i adds nothing to term k: the else side of `if denom != 0`.
Skipped(i, k) == Denom(i, k) = 0

\* inner after the first i slots of the inner loop: inner = mpf(0), then
\* for each slot, denom = period * k + offset; if denom != 0: inner += coef / denom
RECURSIVE InnerUpTo(_, _, _, _, _)
InnerUpTo(fn, coefs, k, i, f) ==
    IF i = 0 THEN FxZero(f)
    ELSE LET inner == InnerUpTo(fn, coefs, k, i - 1, f)
         IN  IF ~Skipped(i, k)
             THEN FxAdd(inner, FxDivInt(SlotCoef(fn, coefs, i, f), Denom(i, k)))
             ELSE inner

Inner(fn, coefs, k, f) == InnerUpTo(fn, coefs, k, Len(SLOTS), f)

\* A series whose terms do not alternate.
Positive(k, f) == FxFromInt(1, f)

\* sign = mpf(-1)**k
Sign(k, f) == IF k % 2 = 0 THEN FxFromInt(1, f) ELSE FxFromInt(-1, f)

\* x / 4096**k: x divided by the radix k times over.
RECURSIVE DivRadix(_, _)
DivRadix(x, k) ==
    IF k = 0 \/ FxIsZero(x) THEN x
    ELSE IF k = 1 THEN FxDivInt(x, Radix)
    ELSE DivRadix(DivRadix(x, k \div 2), k - k \div 2)

\* A series whose terms carry no power of the radix.
UnitTerm(k, f) == FxFromInt(1, f)

\* base_term = mpf(1) / mpf(4096)**k
BaseTerm(k, f) == DivRadix(FxFromInt(1, f), k)

\* result += sign * base_term * inner
Accumulate(result, fn, coefs, k, f) ==
    FxAdd(result, FxMul(FxMul(Sign(k, f), BaseTerm(k, f)), Inner(fn, coefs, k, f)))

\* result after the first n passes of evaluate_phi_bbp's loop over the
\* coefficients coefs.
RECURSIVE PhiBbpLoop(_, _, _)
PhiBbpLoop(coefs, n, f) ==
    IF n <= 0 THEN FxZero(f)
    ELSE Accumulate(PhiBbpLoop(coefs, n - 1, f), "evaluate_phi_bbp", coefs,
                    n - 1, f)

\* A loop that also runs its body for index n_terms.
InRangeInclusive(k, n_terms) == k <= n_terms

\* for k in range(n_terms): whether the loop runs its body for index k.
InRange(k, n_terms) == k < n_terms

\* The call: mp.dps = precision, the coefficients, result = mpf(0).
EvalCall(fn, n_terms, precision, cont) ==
    LET d == EvaluatorDps(dps, precision)
        f == Limbs(d)
    IN  /\ dps' = d
        /\ ev' = [fn |-> fn, n_terms |-> n_terms, precision |-> precision,
                  entered_at |-> dps, k |-> 0, result |-> FxZero(f),
                  coefs |-> IF fn = "evaluate_phi_bbp" THEN EffectiveCoefs(f)
                            ELSE <<>>,
                  cont |-> cont]
        /\ arith' = {[op |-> fn, want |-> precision, got |-> d]}
        /\ pc' = "eval"

\* One pass of the loop body.
EvalIter ==
    /\ pc = "eval"
    /\ InRange(ev.k, ev.n_terms)
    /\ ev' = [ev EXCEPT !.k = @ + 1,
                        !.result = Accumulate(@, ev.fn, ev.coefs, ev.k, Limbs(dps))]
    /\ arith' = {[op |-> ev.fn, want |-> ev.precision, got |-> dps]}
    /\ UNCHANGED <<dps, pc, acc, last, ref, results, script, exit, fig3>>

\* What is kept of a call for comparison: its arguments and its value.
Kept(call) ==
    [op |-> call.op, n_terms |-> call.n_terms, precision |-> call.precision,
     value |-> call.value]

\* Whether the running call has the arguments of the call kept in ref.
Repeats ==
    /\ ref # NoCall
    /\ ref.op = ev.fn
    /\ ref.n_terms = ev.n_terms
    /\ ref.precision = ev.precision

\* return result / mpf(64), to the caller's continuation.
EvalReturn ==
    /\ pc = "eval"
    /\ ~InRange(ev.k, ev.n_terms)
    /\ LET call == [op |-> ev.fn, n_terms |-> ev.n_terms,
                    precision |-> ev.precision, outcome |-> "returned",
                    entered_at |-> ev.entered_at, repeats |-> Repeats,
                    sets_dps |-> TRUE,
                    value |-> FxDivInt(ev.result, ScaleFactor)]
       IN  /\ last' = call
           /\ ref' \in IF ev.cont = "idle" /\ ref = NoCall THEN {ref, Kept(call)}
                       ELSE {ref}
    /\ pc' = ev.cont
    /\ ev' = NoFrame
    /\ arith' = {[op |-> ev.fn, want |-> ev.precision, got |-> dps]}
    /\ UNCHANGED <<dps, acc, results, script, exit, fig3>>

(***************************************************************************)
(* Python floats of the checks.                                            *)
(***************************************************************************)
Float(ip, digits) == FxLit(FALSE, ip, digits, FloatLimbs)

\* 1e-21, 1e-10, 1e-5, 1e-4, 0.5 and 1e15.
Tol21 == Float(0, <<0, 0, 0, 0, 0, 1000>>)

Tol10 == Float(0, <<0, 0, 100>>)

Tol5 == Float(0, <<0, 1000>>)

Tol4 == Float(0, <<1>>)

Half == Float(0, <<5000>>)

\* abs(a - b)
Distance(a, b) == FxAbs(FxSub(a, b))

Float1e15 ==
    Fx(FALSE, [i \in 1..(IntLimbs + FloatLimbs) |->
                  IF i = IntLimbs - 3 THEN 1000 ELSE 0])

(***************************************************************************)
(* The seven checks.  A check called from main appends its result to       *)
(* main's list; called on its own it only returns.  Where a check measures *)
(* through long evaluations (the series at 100 to 2000 digits, phi, atan,  *)
(* log and the polylogarithms at 50), the measured floats are drawn from a *)
(* set that holds a value on each side of every threshold the check        *)
(* applies; everything the check does with them is computed.               *)
(***************************************************************************)
CheckNames ==
    <<"Accuracy", "Convergence Rate", "phi-Pattern", "Total Correction",
      "Bellard Comparison", "Mathematical Identities", "Integer Improvement">>

\* A main that stops calling checks at the first failed one.
NextUnlessFailed(res) ==
    IF \E i \in 1..Len(res) : ~res[i][2] THEN 8 + Len(res) ELSE Len(res) + 1

\* The check main calls next: they are called in the order of CheckNames.
NextCheck(res) == Len(res) + 1

CheckEnabled(i) ==
    \/ pc = "idle"
    \/ pc = "main" /\ NextCheck(results) = i

\* The check returns: call is its record, d the precision it leaves in
\* mp.dps, ar the mpf arithmetic it did.
CheckReturns(i, call, d, ar) ==
    /\ last' = call
    /\ dps' = d
    /\ arith' = ar
    /\ results' = IF pc = "main"
                  THEN Append(results, <<CheckNames[i], call.value>>)
                  ELSE results
    /\ UNCHANGED <<pc, ev, acc, ref, script, exit, fig3>>

\* mp.dps after a check that sets it to d and then calls the evaluators with
\* precision=d.
DpsAfterEvaluations(d) == EvaluatorDps(d, d)

\* The mpf arithmetic of such a check: the evaluators', then its own
\* abs(value - mp_pi), both at the precision the evaluators left.
ArithWithEvaluations(op, fns, d) ==
    {[op |-> fn, want |-> d, got |-> DpsAfterEvaluations(d)] : fn \in fns}
        \cup {[op |-> op, want |-> d, got |-> DpsAfterEvaluations(d)]}

\* ---- 1. verify_accuracy
AccuracyDps == 300

\* The term counts of the report loop, then the one of the final claim.
AccuracyTerms == <<10, 50, 100, 200, 100>>

\* return error < 1e-21
AccuracyVerdict(error) == FxLess(error, Tol21)

AccuracyReport(error) ==
    [op |-> "verify_accuracy", outcome |-> "returned", sets_dps |-> TRUE,
     error |-> error, value |-> AccuracyVerdict(error)]

\* 7.84e-22 and 6.366e-05
AccuracyErrors == {Float(0, <<0, 0, 0, 0, 0, 784>>), Float(0, <<0, 6366>>)}

AccuracyOutcomes == {AccuracyReport(e) : e \in AccuracyErrors}

VerifyAccuracy ==
    /\ CheckEnabled(1)
    /\ \E call \in AccuracyOutcomes :
          CheckReturns(1, call, DpsAfterEvaluations(AccuracyDps),
                       ArithWithEvaluations("verify_accuracy",
                                            {"evaluate_phi_bbp"}, AccuracyDps))

\* ---- 2. verify_convergence_rate
ConvergenceDps == 2000

ConvergenceTerms == <<1, 2, 3, 4, 5>>

\* theoretical_rate = np.log10(4096)
TheoreticalRate == FxLog10(FxFromInt(Radix, FloatLimbs))

\* rate = 3.61  # theoretical
FallbackRate == Float(3, <<6100>>)

\* The line of the printed report that carries the rate.
RateLine == 3

\* if e2 > 0 and e1 > 0
Measurable(e1, e2) ==
    FxLess(FxZero(FloatLimbs), e2) /\ FxLess(FxZero(FloatLimbs), e1)

\* errors[0] and errors[-1] to the printed report and the returned verdict.
ConvergenceReport(e1, e2) ==
    LET n1 == ConvergenceTerms[1]
        n2 == ConvergenceTerms[Len(ConvergenceTerms)]
        rate == IF Measurable(e1, e2)
                THEN FxDivInt(FxSub(FxLog10(e1), FxLog10(e2)), n2 - n1)
                ELSE FallbackRate
        verified == FxLess(Distance(rate, TheoreticalRate), Half)
    IN  [op |-> "verify_convergence_rate", outcome |-> "returned",
         sets_dps |-> TRUE, e1 |-> e1, e2 |-> e2, rate |-> rate,
         report |-> << <<"CLAIM", "rate = 3.61 digits/term">>,
                       <<"THEORETICAL", TheoreticalRate>>,
                       <<"MEASURED", rate>>,
                       <<"VERIFIED", verified>> >>,
         value |-> verified]

\* 0 and 1.15099e-04; 0, 8.418e-20 and 1.15099e-04
FirstErrors == {FxZero(FloatLimbs), Float(0, <<1, 1509, 9000>>)}

LastErrors ==
    {FxZero(FloatLimbs), Float(0, <<0, 0, 0, 0, 8, 4180>>), Float(0, <<1, 1509, 9000>>)}

ConvergenceOutcomes ==
    {ConvergenceReport(e1, e2) : e1 \in FirstErrors, e2 \in LastErrors}

VerifyConvergenceRate ==
    /\ CheckEnabled(2)
    /\ \E call \in ConvergenceOutcomes :
          CheckReturns(2, call, DpsAfterEvaluations(ConvergenceDps),
                       ArithWithEvaluations("verify_convergence_rate",
                                            {"evaluate_phi_bbp"}, ConvergenceDps))

\* ---- 3. verify_phi_pattern
PatternDps == 50

\* all_verified after the first n pairs: all_verified and (error < 1e-4)
RECURSIVE PatternVerified(_, _)
PatternVerified(errors, n) ==
    IF n = 0 THEN TRUE
    ELSE PatternVerified(errors, n - 1) /\ FxLess(errors[n], Tol4)

PatternReport(errors) ==
    [op |-> "verify_phi_pattern", outcome |-> "returned", sets_dps |-> TRUE,
     errors |-> errors, value |-> PatternVerified(errors, Len(errors))]

\* The slots whose approximation misses: none, one, or all.
PatternMisses ==
    {{}} \cup {{i} : i \in 1..Len(PHI_CORRECTIONS)} \cup {1..Len(PHI_CORRECTIONS)}

\* 3.1e-05 where the approximation holds, 2.5e-03 where it misses.
PatternErrors ==
    {[i \in 1..Len(PHI_CORRECTIONS) |->
         IF i \in F THEN Float(0, <<25>>) ELSE Float(0, <<0, 3100>>)] :
       F \in PatternMisses}

\* Rational x phi-power approximations: <<num, den, phi_pow>>.
RATIONAL_APPROX ==
    << <<46, 11, -11>>, <<-31, 96, -4>>, <<53, 99, -9>>, <<31, 81, -7>>,
       <<13, 16, -5>>, <<-47, 67, -4>>, <<-41, 39, -4>>, <<71, 83, -6>> >>

\* The fraction of phi, 64 decimal places.
PhiDigits ==
    <<6180, 3398, 8749, 8948, 4820, 4586, 8343, 6563, 8117, 7203, 917, 9805,
      7628, 6213, 5448, 6227>>

\* PHI = mpf(mp_phi) while the working precision carries f fraction limbs.
MpPhi(f) == FxLit(FALSE, 1, PhiDigits, f)

\* PHI ** phi_pow
RECURSIVE PhiPower(_, _)
PhiPower(phi, k) ==
    IF k = 0 THEN FxFromInt(1, FracLimbs(phi))
    ELSE IF k < 0
    THEN FxDiv(FxFromInt(1, FracLimbs(phi)), PhiPower(phi, -k))
    ELSE FxMul(PhiPower(phi, k - 1), phi)

\* approx = float((num / den) * (PHI ** phi_pow)), for c = <<num, den, phi_pow>>
Approx(c, f) ==
    LET ratio == FxDiv(FxFromInt(c[1], FloatLimbs), FxFromInt(c[2], FloatLimbs))
    IN  ToFloat(FxMul(FxRound(ratio, f), PhiPower(MpPhi(f), c[3])))

\* PHI_CORRECTIONS[i] as the float it is.
Correction(i) ==
    FxLit(PHI_CORRECTIONS[i].neg, 0, PHI_CORRECTIONS[i].digits, FloatLimbs)

\* A pairing that is off by one: correction i with the candidate after it.
CandidateAfter(i) == RATIONAL_APPROX[(i % Len(RATIONAL_APPROX)) + 1]

\* The candidate that zip(PHI_CORRECTIONS, RATIONAL_APPROX) pairs with
\* correction i.
Candidate(i) == RATIONAL_APPROX[i]

\* error = abs(corr - approx), for the first n pairs of the loop.
RECURSIVE PatternMeasuredUpTo(_)
PatternMeasuredUpTo(n) ==
    IF n = 0 THEN <<>>
    ELSE Append(PatternMeasuredUpTo(n - 1),
                Distance(Correction(n), Approx(Candidate(n), Limbs(PatternDps))))

PatternMeasured == PatternMeasuredUpTo(Len(PHI_CORRECTIONS))

\* What the check returns: on the errors it measures, or on drawn ones.
PatternOutcomes ==
    {PatternReport(e) : e \in PatternErrors \cup {PatternMeasured}}

VerifyPhiPattern ==
    /\ CheckEnabled(3)
    /\ \E call \in PatternOutcomes :
          CheckReturns(3, call, PatternDps,
                       {[op |-> "verify_phi_pattern", want |-> PatternDps,
                         got |-> PatternDps]})

\* ---- 4. verify_total_correction
TotalDps == 50

\* total = sum(PHI_CORRECTIONS), after the first n of them.
RECURSIVE CorrectionsSum(_)
CorrectionsSum(n) ==
    IF n = 0 THEN FxZero(FloatLimbs)
    ELSE FxAdd(CorrectionsSum(n - 1),
               FxLit(PHI_CORRECTIONS[n].neg, 0, PHI_CORRECTIONS[n].digits,
                     FloatLimbs))

\* atan(1/phi) and log(phi) as floats: 0.553574358897045 and
\* 0.481211825059603.
AtanPhi == Float(0, <<5535, 7435, 8897, 450>>)

LogPhi == Float(0, <<4812, 1182, 5059, 6030>>)

\* ---- figure3_closed_form of generate_figures.py, which carries its own
\* copy of PHI_CORRECTIONS, equal to the one of verify_formula.py.
FigureDps == 50

GridSize == 100

\* np.linspace(lo, lo + 2, 100)[i]
GridPoint(lo, i) ==
    FxAdd(FxFromInt(lo, FloatLimbs),
          FxDivInt(FxFromInt(2 * i, FloatLimbs), GridSize - 1))

\* a_range[i] and b_range[j]
ARange(i) == GridPoint(-1, i)

BRange(j) == GridPoint(-2, j)

\* error_grid[i, j] = abs(a * atan_phi + b * log_phi - total)
GridError(i, j, atan_phi, log_phi, total) ==
    FxAbs(FxSub(FxAdd(FxMul(ARange(i), atan_phi), FxMul(BRange(j), log_phi)),
                total))

\* The rows and columns of the grid that the model carries: the edges, the
\* ones nearest 13/20 and -26/25, and the ones of the grid's lowest error.
GridRows == {0, 63, 82, GridSize - 1}

GridColumns == {0, 48, 69, GridSize - 1}

\* The marked point: best_a = 13/20, best_b = -26/25.
BestA == FxDiv(FxFromInt(13, FloatLimbs), FxFromInt(20, FloatLimbs))

BestB == FxDiv(FxFromInt(-26, FloatLimbs), FxFromInt(25, FloatLimbs))

\* What the function draws: the heatmap of error_grid, the marked point and
\* the bars of the decomposition.
Figure3(atan_phi, log_phi) ==
    LET total == CorrectionsSum(Len(PHI_CORRECTIONS))
    IN  [op |-> "figure3_closed_form",
         total |-> total,
         error_grid |-> [c \in GridRows \X GridColumns |->
                            GridError(c[1], c[2], atan_phi, log_phi, total)],
         marked |-> <<BestA, BestB>>,
         components |-> <<FxMul(BestA, atan_phi), FxMul(BestB, log_phi),
                          FxAdd(FxMul(BestA, atan_phi), FxMul(BestB, log_phi)),
                          total>>]

Figure3Drawn == Figure3(AtanPhi, LogPhi)

\* The cell of the lowest error in a grid.
Lowest(grid) ==
    CHOOSE c \in DOMAIN grid : \A d \in DOMAIN grid : ~FxLess(grid[d], grid[c])

\* A closed form whose first coefficient is the one the grid search finds.
SearchedA == ARange(Lowest(Figure3Drawn.error_grid)[1])

Figure3ClosedForm ==
    /\ pc = "idle"
    /\ dps' = FigureDps
    /\ fig3' = Figure3Drawn
    /\ last' = [op |-> "figure3_closed_form", outcome |-> "returned",
                sets_dps |-> TRUE]
    /\ arith' = {[op |-> "figure3_closed_form", want |-> FigureDps,
                  got |-> FigureDps]}
    /\ UNCHANGED <<pc, ev, acc, ref, results, script, exit>>

\* ---- 4. verify_total_correction, continued
\* The closed form's pair: (13/20, -26/25).
ClosedFormA == FxDiv(FxFromInt(13, FloatLimbs), FxFromInt(20, FloatLimbs))

ClosedFormB == FxDiv(FxFromInt(-26, FloatLimbs), FxFromInt(25, FloatLimbs))

\* From atan_phi and log_phi to the returned verdict.
TotalCorrectionReport(atan_phi, log_phi) ==
    LET total == CorrectionsSum(Len(PHI_CORRECTIONS))
        closed_form == FxAdd(FxMul(ClosedFormA, atan_phi),
                             FxMul(ClosedFormB, log_phi))
        error == FxAbs(FxSub(total, closed_form))
    IN  [op |-> "verify_total_correction", outcome |-> "returned",
         sets_dps |-> TRUE, total |-> total, atan_phi |-> atan_phi,
         log_phi |-> log_phi, closed_form |-> closed_form,
         error |-> error, value |-> FxLess(error, Tol5)]

\* <<atan(1/phi), log(phi)>> as floats, or a reading that is off in the
\* third decimal.
TranscendentalReadings ==
    { <<AtanPhi, LogPhi>>,
      <<Float(0, <<5545, 7435, 8897, 450>>), LogPhi>> }

TotalCorrectionOutcomes ==
    {TotalCorrectionReport(r[1], r[2]) : r \in TranscendentalReadings}

VerifyTotalCorrection ==
    /\ CheckEnabled(4)
    /\ \E call \in TotalCorrectionOutcomes :
          CheckReturns(4, call, TotalDps,
                       {[op |-> "verify_total_correction", want |-> TotalDps,
                         got |-> TotalDps]})

\* ---- 5. verify_bellard_comparison
BellardRadix == 1024

\* The ratio as a percentage, the 1 not subtracted.
RatioPercent(phi_bbp_rate, bellard_rate) ==
    FxMulInt(FxDiv(phi_bbp_rate, bellard_rate), 100)

\* improvement = (phi_bbp_rate / bellard_rate - 1) * 100
Improvement(phi_bbp_rate, bellard_rate) ==
    FxMulInt(FxSub(FxDiv(phi_bbp_rate, bellard_rate),
                   FxFromInt(1, FloatLimbs)), 100)

\* phi_bbp_rate, bellard_rate, improvement and the returned verdict.
BellardReport ==
    LET phi_bbp_rate == FxLog10(FxFromInt(Radix, FloatLimbs))
        bellard_rate == FxLog10(FxFromInt(BellardRadix, FloatLimbs))
        improvement == Improvement(phi_bbp_rate, bellard_rate)
        off == Distance(improvement, FxFromInt(20, FloatLimbs))
    IN  [op |-> "verify_bellard_comparison", outcome |-> "returned",
         sets_dps |-> FALSE,
         ratio |-> FxDiv(phi_bbp_rate, bellard_rate),
         improvement |-> improvement,
         value |-> FxLess(off, FxFromInt(2, FloatLimbs))]

\* The check works in numpy floats alone: it neither reads nor sets mp.dps.
VerifyBellardComparison ==
    /\ CheckEnabled(5)
    /\ CheckReturns(5, BellardReport, dps, {})

\* ---- 6. verify_mathematical_identities
IdentitiesDps == 50

IdentityCount == 5

\* The identities the function evaluates, given their errors: each one in
\* turn, whatever the errors before it.
IdentitiesEvaluated(errors) == [i \in 1..IdentityCount |-> i]

\* A verdict that one identity within tolerance is enough for.
AnyVerified(errors, n) == \E i \in 1..n : FxLess(errors[i], Tol10)

\* all_verified after the first n identities: all_verified and (err < 1e-10)
RECURSIVE IdentitiesVerified(_, _)
IdentitiesVerified(errors, n) ==
    IF n = 0 THEN TRUE
    ELSE IdentitiesVerified(errors, n - 1) /\ FxLess(errors[n], Tol10)

IdentitiesReport(errors) ==
    LET done == IdentitiesEvaluated(errors)
    IN  [op |-> "verify_mathematical_identities", outcome |-> "returned",
         sets_dps |-> TRUE, errors |-> errors, evaluated |-> done,
         value |-> IdentitiesVerified(errors, Len(done))]

\* 4.2e-17 where the identity holds to float precision, 1e-06 where not.
IdentityErrors ==
    {[i \in 1..IdentityCount |->
         IF i \in F THEN Float(0, <<0, 100>>) ELSE Float(0, <<0, 0, 0, 0, 4200>>)] :
       F \in SUBSET (1..IdentityCount)}

IdentitiesOutcomes == {IdentitiesReport(e) : e \in IdentityErrors}

VerifyMathematicalIdentities ==
    /\ CheckEnabled(6)
    /\ \E call \in IdentitiesOutcomes :
          CheckReturns(6, call, IdentitiesDps,
                       {[op |-> "verify_mathematical_identities",
                         want |-> IdentitiesDps, got |-> IdentitiesDps]})

\* ---- 7. verify_integer_improvement
ImprovementDps == 100

\* From int_error and phi_error (phi_error > 0) to the returned verdict.
ImprovementReport(int_error, phi_error) ==
    LET improvement == FxDiv(int_error, phi_error)
    IN  [op |-> "verify_integer_improvement", outcome |-> "returned",
         sets_dps |-> TRUE, int_error |-> int_error, phi_error |-> phi_error,
         improvement |-> improvement,
         value |-> FxLess(Float1e15, improvement)]

\* int_error 6.366e-05; phi_error 7.84e-22 or 6.366e-05.
ImprovementErrors ==
    { <<Float(0, <<0, 6366>>), Float(0, <<0, 0, 0, 0, 0, 784>>)>>,
      <<Float(0, <<0, 6366>>), Float(0, <<0, 6366>>)>> }

ImprovementOutcomes == {ImprovementReport(e[1], e[2]) : e \in ImprovementErrors}

VerifyIntegerImprovement ==
    /\ CheckEnabled(7)
    /\ \E call \in ImprovementOutcomes :
          CheckReturns(7, call, DpsAfterEvaluations(ImprovementDps),
                       ArithWithEvaluations("verify_integer_improvement",
                                            {"evaluate_integer_only",
                                             "evaluate_phi_bbp"},
                                            ImprovementDps))

(***************************************************************************)
(* main and the __main__ block.                                            *)
(***************************************************************************)
\* all_passed = passed: the flag overwritten by each result.
LastPassed(res, n) == IF n = 0 THEN TRUE ELSE res[n][2]

\* all_passed after the first n results: all_passed and passed
RECURSIVE AllPassed(_, _)
AllPassed(res, n) ==
    IF n = 0 THEN TRUE ELSE AllPassed(res, n - 1) /\ res[n][2]

\* exit(0 if success else 1)
ExitStatus(success) == IF success THEN 0 ELSE 1

\* python verify_formula.py: a fresh process runs main() from __main__.
RunScript ==
    /\ pc = "idle"
    /\ last = NoCall /\ ref = NoCall /\ dps = DefaultDps
    /\ pc' = "main"
    /\ script' = TRUE
    /\ results' = <<>>
    /\ arith' = {}
    /\ UNCHANGED <<dps, ev, acc, last, ref, exit, fig3>>

\* main() called by an importer.
CallMain ==
    /\ pc = "idle"
    /\ pc' = "main"
    /\ script' = FALSE
    /\ results' = <<>>
    /\ last' = NoCall
    /\ ref' = NoCall
    /\ arith' = {}
    /\ UNCHANGED <<dps, ev, acc, exit, fig3>>

\* The summary loop over results, and return all_passed.
MainSummary ==
    /\ pc = "main"
    /\ NextCheck(results) > Len(CheckNames)
    /\ last' = [op |-> "main", outcome |-> "returned", sets_dps |-> FALSE,
                report |-> results,
                value |-> AllPassed(results, Len(results))]
    /\ results' = <<>>
    /\ pc' = IF script THEN "returned" ELSE "idle"
    /\ arith' = {}
    /\ UNCHANGED <<dps, ev, acc, ref, script, exit, fig3>>

\* success = main(); exit(0 if success else 1)
ExitProcess ==
    /\ pc = "returned"
    /\ exit' = ExitStatus(last.value)
    /\ pc' = "exited"
    /\ arith' = {}
    /\ UNCHANGED <<dps, ev, acc, last, ref, results, script, fig3>>

(***************************************************************************)
(* The evaluators called on their own, in any order among the checks.      *)
(***************************************************************************)
MaxTerms == 2

MaxPrecisionLimbs == 2

TermChoices == (-1)..MaxTerms

PrecisionChoices == {4 * i : i \in 1..MaxPrecisionLimbs}

Evaluators == {"evaluate_phi_bbp", "evaluate_integer_only"}

CallEvaluator ==
    /\ pc = "idle"
    /\ \E fn \in Evaluators, n \in TermChoices, p \in PrecisionChoices :
          EvalCall(fn, n, p, "idle")
    /\ last' = NoCall
    /\ UNCHANGED <<acc, ref, results, script, exit, fig3>>

(***************************************************************************)
(* verify_accuracy, evaluation by evaluation, at its 300 digits.           *)
(***************************************************************************)
NoAcc == [i |-> 0]

\* mp.dps = 300, before the loop.
AccuracyStart ==
    /\ pc = "idle"
    /\ dps' = AccuracyDps
    /\ acc' = [i |-> 1, called |-> FALSE]
    /\ pc' = "acc"
    /\ last' = NoCall
    /\ arith' = {}
    /\ UNCHANGED <<ev, ref, results, script, exit, fig3>>

\* value = evaluate_phi_bbp(n_terms, precision=300)
AccuracyEvaluate ==
    /\ pc = "acc"
    /\ ~acc.called
    /\ EvalCall("evaluate_phi_bbp", AccuracyTerms[acc.i], AccuracyDps, "acc")
    /\ acc' = [acc EXCEPT !.called = TRUE]
    /\ UNCHANGED <<last, ref, results, script, exit, fig3>>

\* error = abs(value - mp_pi), as a float.
AccuracyError(value, ambient) ==
    ToFloat(FxAbs(FxSub(FxRound(value, Limbs(ambient)), MpPi(Limbs(ambient)))))

\* The error of the evaluation that just returned: printed in the loop,
\* compared with 1e-21 and returned after it.
AccuracyRecord ==
    /\ pc = "acc"
    /\ acc.called
    /\ IF acc.i < Len(AccuracyTerms)
       THEN /\ acc' = [acc EXCEPT !.i = @ + 1, !.called = FALSE]
            /\ UNCHANGED <<last, pc>>
       ELSE /\ acc' = NoAcc
            /\ last' = AccuracyReport(AccuracyError(last.value, dps))
            /\ pc' = "idle"
    /\ arith' = {[op |-> "verify_accuracy", want |-> AccuracyDps, got |-> dps]}
    /\ UNCHANGED <<dps, ev, ref, results, script, exit, fig3>>

Init ==
    /\ dps = DefaultDps
    /\ pc = "idle"
    /\ ev = NoFrame
    /\ acc = NoAcc
    /\ last = NoCall
    /\ ref = NoCall
    /\ arith = {}
    /\ results = <<>>
    /\ script = FALSE
    /\ exit = NoExit
    /\ fig3 = NoFigure

\* The checks and the evaluators, called in any order, and main.
Next ==
    \/ CallEvaluator
    \/ EvalIter
    \/ EvalReturn
    \/ VerifyAccuracy
    \/ VerifyConvergenceRate
    \/ VerifyPhiPattern
    \/ VerifyTotalCorrection
    \/ VerifyBellardComparison
    \/ VerifyMathematicalIdentities
    \/ VerifyIntegerImprovement
    \/ RunScript
    \/ CallMain
    \/ MainSummary
    \/ ExitProcess

Spec == Init /\ [][Next]_vars

\* verify_accuracy alone, with every term of its evaluations computed.
NextAccuracy ==
    \/ AccuracyStart
    \/ AccuracyEvaluate
    \/ EvalIter
    \/ EvalReturn
    \/ AccuracyRecord

SpecAccuracy == Init /\ [][NextAccuracy]_vars

\* The checks and main, with figure3_closed_form of generate_figures.py
\* called between them in the same interpreter.
NextFigures ==
    \/ Figure3ClosedForm
    \/ VerifyAccuracy
    \/ VerifyConvergenceRate
    \/ VerifyPhiPattern
    \/ VerifyTotalCorrection
    \/ VerifyBellardComparison
    \/ VerifyMathematicalIdentities
    \/ VerifyIntegerImprovement
    \/ RunScript
    \/ CallMain
    \/ MainSummary
    \/ ExitProcess

SpecFigures == Init /\ [][NextFigures]_vars

(***************************************************************************)
(* Properties.                                                             *)
(***************************************************************************)
\* C1: main returns TRUE exactly when all seven recorded check results are
\* TRUE, whatever the combination of results, and the process exits with
\* status 0 exactly when main returned TRUE, with status 1 otherwise.
MainReturnsConjunction ==
    /\ last.op = "main" =>
          /\ Len(last.report) = Len(CheckNames)
          /\ last.value = (\A i \in 1..Len(last.report) : last.report[i][2])
    /\ pc = "exited" =>
          /\ last.op = "main"
          /\ exit = (IF last.value THEN 0 ELSE 1)

\* The script exits 1 after a run whose first check passed and whose last
\* check failed.
MainReturnsConjunctionWitness ==
    /\ pc = "exited"
    /\ exit = 1
    /\ last.report[1][2]
    /\ ~last.report[Len(CheckNames)][2]

\* C2: in a run of main the checks are recorded one each, in the order of
\* CheckNames, and main reaches its summary only with all seven recorded,
\* whether or not an earlier one failed.
EveryCheckRunsOnceInOrder ==
    /\ Len(results) <= Len(CheckNames)
    /\ \A i \in 1..Len(results) : results[i][1] = CheckNames[i]
    /\ last.op = "main" =>
          /\ Len(last.report) = Len(CheckNames)
          /\ \A i \in 1..Len(CheckNames) : last.report[i][1] = CheckNames[i]

\* main returned after its first check failed, with the later ones recorded,
\* the last of them passed.
EveryCheckRunsOnceInOrderWitness ==
    /\ last.op = "main"
    /\ pc = "idle"
    /\ ~last.report[1][2]
    /\ last.report[Len(CheckNames)][2]

\* C3: an evaluator called with n_terms = 0 returns exactly 0 at every
\* precision.
ZeroTermsYieldZero ==
    (last.op \in Evaluators /\ last.n_terms = 0) =>
        last.value = FxZero(Limbs(last.precision))

\* Both evaluators have returned from a call with n_terms = 0: one is the
\* call kept in ref, the other the last call, at another precision.
ZeroTermsYieldZeroWitness ==
    /\ last.op = "evaluate_integer_only"
    /\ last.n_terms = 0
    /\ ref.op = "evaluate_phi_bbp"
    /\ ref.n_terms = 0
    /\ ref.precision # last.precision

\* C4: an evaluator called with a negative n_terms fails with an
\* InvalidArgument error and returns no value.
NegativeTermsRejected ==
    (last.op \in Evaluators /\ last.n_terms < 0) =>
        last.outcome = "InvalidArgument"

\* An evaluator called with n_terms = -1 has returned, and returned zero.
NegativeTermsReturnZero ==
    /\ last.op \in Evaluators
    /\ last.n_terms < 0
    /\ last.outcome = "returned"
    /\ FxIsZero(last.value)

\* C5 as stated: each evaluator and each verify_* check sets mp.dps before
\* its arithmetic, and every mpf arithmetic step runs at the precision meant
\* for it.
SetBeforeUseEverywhere ==
    /\ \A a \in arith : a.got = a.want
    /\ last.op \notin {"none", "main"} => last.sets_dps

\* C5: each evaluator and each verify_* check that does mpf arithmetic sets
\* mp.dps before it, and every mpf arithmetic step runs at the precision
\* meant for it; verify_bellard_comparison, which works in floats alone,
\* leaves mp.dps as it finds it.
SetBeforeUse ==
    /\ \A a \in arith : a.got = a.want
    /\ last.op \notin {"none", "main", "verify_bellard_comparison"} =>
          last.sets_dps
    /\ last.op = "verify_bellard_comparison" => arith = {}

\* An evaluator is past its first term in a call entered while mp.dps held
\* another precision than the call's own.
SetBeforeUseWitness ==
    /\ pc = "eval"
    /\ ev.k >= 1
    /\ ev.entered_at # ev.precision
    /\ arith # {}

\* C6: two calls of an evaluator with the same n_terms and the same precision
\* return the same value, whatever ran before or between them.
Deterministic ==
    (/\ ref # NoCall
     /\ last.op = ref.op
     /\ last.n_terms = ref.n_terms
     /\ last.precision = ref.precision) => last.value = ref.value

\* A two-term call has returned that repeats the call kept in ref, entered
\* while mp.dps held another precision than the one that call left.
DeterministicWitness ==
    /\ ref # NoCall
    /\ last.op = ref.op
    /\ last.n_terms = 2
    /\ ref.n_terms = 2
    /\ last.precision = ref.precision
    /\ last.repeats
    /\ last.entered_at # last.precision

IdentitiesAllEvaluated ==
    last.op = "verify_mathematical_identities" =>
        /\ last.evaluated = [i \in 1..IdentityCount |-> i]
        /\ last.value = (\A i \in 1..IdentityCount : FxLess(last.errors[i], Tol10))

\* The verifier returned FALSE on errors of which the first is out of
\* tolerance and the other four are within it.
IdentitiesAllEvaluatedWitness ==
    /\ last.op = "verify_mathematical_identities"
    /\ ~last.value
    /\ ~FxLess(last.errors[1], Tol10)
    /\ \A i \in 2..IdentityCount : FxLess(last.errors[i], Tol10)
    /\ Len(last.evaluated) = IdentityCount

\* C9 as stated: log10(4096)/log10(1024) is 1.2027 to four decimals, the
\* improvement 20.27% to two, and the Bellard comparison passes.
RadixRatioAsStated ==
    last.op = "verify_bellard_comparison" =>
        /\ FxLess(Distance(last.ratio, Float(1, <<2027>>)), Float(0, <<1>>))
        /\ FxLess(Distance(last.improvement, Float(20, <<2700>>)), Float(0, <<100>>))
        /\ last.value

\* C9: log10(4096)/log10(1024) is 1.2000 to four decimals (it is 12/10), the
\* improvement 20.00% to two, which is within 2 percentage points of 20%,
\* and the Bellard comparison passes.
RadixRatio ==
    last.op = "verify_bellard_comparison" =>
        /\ FxLess(Distance(last.ratio, Float(1, <<2000>>)), Float(0, <<1>>))
        /\ FxLess(Distance(last.improvement, Float(20, <<>>)), Float(0, <<100>>))
        /\ FxLess(Distance(last.improvement, Float(20, <<>>)), Float(2, <<>>))
        /\ last.value

\* The Bellard comparison has returned, called on its own while mp.dps held
\* the precision an earlier check left.
RadixRatioWitness ==
    /\ last.op = "verify_bellard_comparison"
    /\ last.value
    /\ pc = "idle"
    /\ dps = ConvergenceDps

\* C10: at 300 digits the corrected formula with 100 terms is within 1e-21
\* of pi, and verify_accuracy returns TRUE.
AccurateAtHundredTerms ==
    last.op = "verify_accuracy" =>
        /\ FxLess(last.error, Tol21)
        /\ last.value

\* verify_accuracy has returned from its five evaluations with a nonzero
\* error, mp.dps still at 300.
AccurateAtHundredTermsWitness ==
    /\ last.op = "verify_accuracy"
    /\ pc = "idle"
    /\ acc = NoAcc
    /\ dps = AccuracyDps
    /\ ~FxIsZero(last.error)

(***************************************************************************)
(* The reference value of the series, summed slot by slot with two more    *)
(* fraction limbs than the evaluator carries.                              *)
(***************************************************************************)
\* Coefficient i of the reference: integer part plus correction for the
\* corrected formula, integer part alone for the integer-only one.
ReferenceCoef(fn, i, g) ==
    IF fn = "evaluate_phi_bbp"
    THEN FxAdd(FxFromInt(INT_COEFS[i], g),
               FxLit(PHI_CORRECTIONS[i].neg, 0, PHI_CORRECTIONS[i].digits, g))
    ELSE FxFromInt(INT_COEFS[i], g)

\* x * 4096^(-k)
RECURSIVE ReferenceScale(_, _)
ReferenceScale(x, k) ==
    IF k = 0 THEN x ELSE ReferenceScale(FxDivInt(x, 4096), k - 1)

\* Slot i's share of the first n terms:
\* sum over k < n of sign(k) * 4096^(-k) * coef_i / (period_i * k + offset_i).
RECURSIVE ReferenceSlot(_, _, _, _)
ReferenceSlot(fn, i, n, g) ==
    IF n = 0 THEN FxZero(g)
    ELSE LET k == n - 1
             t == ReferenceScale(
                      FxDivInt(ReferenceCoef(fn, i, g),
                               SLOTS[i][1] * k + SLOTS[i][2]), k)
         IN  FxAdd(ReferenceSlot(fn, i, n - 1, g),
                   IF k % 2 = 0 THEN t ELSE FxNeg(t))

\* The first n terms, over the slots 1..i.
RECURSIVE ReferenceSum(_, _, _, _)
ReferenceSum(fn, i, n, g) ==
    IF i = 0 THEN FxZero(g)
    ELSE FxAdd(ReferenceSum(fn, i - 1, n, g), ReferenceSlot(fn, i, n, g))

\* The partial sum of n terms before the division by 64, and the value after
\* it, both carried with f fraction limbs.
ReferencePartial(fn, n, f) ==
    FxRound(ReferenceSum(fn, Len(SLOTS), n, f + 2), f)

Reference(fn, n, f) ==
    FxRound(FxDivInt(ReferenceSum(fn, Len(SLOTS), n, f + 2), 64), f)

\* Whether a and b, carried with f fraction limbs, are within ulps units in
\* the last place of each other.
Within(a, b, ulps, f) ==
    FxLess(Distance(a, b),
           Fx(FALSE, [j \in 1..(IntLimbs + f) |->
                         IF j = IntLimbs + f THEN ulps + 1 ELSE 0]))

\* C11: for n_terms >= 0 the value an evaluator returns is the reference
\* value (1/64) * sum over k < n_terms of sign(k) * 4096^(-k) * inner(k), to
\* the last places of its precision (n_terms + 2 units, the truncations of
\* n_terms terms); while the loop runs, its partial sum is the reference sum
\* not yet divided by 64, so the division is applied once, after the loop.
MatchesReference ==
    /\ (last.op \in Evaluators /\ last.n_terms >= 0) =>
          Within(last.value,
                 Reference(last.op, last.n_terms, Limbs(last.precision)),
                 last.n_terms + 2, Limbs(last.precision))
    /\ pc = "eval" =>
          Within(ev.result,
                 ReferencePartial(ev.fn, ev.k, Limbs(ev.precision)),
                 32 * ev.k + 2, Limbs(ev.precision))

\* The corrected evaluator has returned the sum of two terms at 8 digits,
\* a value that is not the integer-only one.
MatchesReferenceWitness ==
    /\ last.op = "evaluate_phi_bbp"
    /\ last.n_terms = 2
    /\ last.precision = 8
    /\ last.value # Reference("evaluate_integer_only", 2, Limbs(8))
    /\ ~FxIsZero(last.value)

\* The slots that contribute to term k.
Contributing(k) == {i \in 1..Len(SLOTS) : ~Skipped(i, k)}

\* C12: for every term an evaluation has added (k from 0 up to the loop
\* index, 199 at most) and each of the 8 slots, the denominator
\* period * k + offset is strictly positive, so no slot is skipped and the
\* term is the sum of exactly 8 contributions.
DenominatorsPositive ==
    pc = "eval" =>
        \A k \in 0..(ev.k - 1) :
            /\ \A i \in 1..Len(SLOTS) : Denom(i, k) > 0
            /\ Cardinality(Contributing(k)) = 8

\* All 200 terms of the longest evaluation have been added.
DenominatorsPositiveWitness ==
    /\ pc = "eval"
    /\ ev.n_terms = 200
    /\ ev.k = 200
    /\ Denom(1, ev.k - 1) = 797

\* C13: the grid search stands apart from the verification.  A step of
\* figure3_closed_form leaves the results, the kept call and the frames of the
\* verification alone; whether or not it has run, and whatever cell of its
\* grid is lowest, verify_total_correction sums the same corrections and
\* compares the sum with 13/20 * atan(1/phi) - 26/25 * log(phi), and the
\* point the figure marks is that same pair.
SearchNeverSelects ==
    /\ [](last.op = "verify_total_correction" =>
            /\ last.total = CorrectionsSum(Len(PHI_CORRECTIONS))
            /\ last.closed_form =
                   FxAdd(FxMul(Float(0, <<6500>>), last.atan_phi),
                         FxMul(FxNeg(Float(1, <<400>>)), last.log_phi))
            /\ last.value =
                   FxLess(Distance(last.total, last.closed_form), Tol5))
    /\ [](fig3 # NoFigure =>
            /\ fig3.total = CorrectionsSum(Len(PHI_CORRECTIONS))
            /\ fig3.marked = <<Float(0, <<6500>>), FxNeg(Float(1, <<400>>))>>)
    /\ [][fig3' # fig3 => UNCHANGED <<pc, ev, acc, ref, results, script, exit>>]_vars

\* The search has run and the lowest cell of its grid is not the marked
\* pair: with that cell's pair the closed form would miss the tolerance, and
\* verify_total_correction, called after the search, has passed.
SearchNeverSelectsWitness ==
    /\ fig3 # NoFigure
    /\ Lowest(fig3.error_grid) = <<63, 69>>
    /\ ARange(63) # fig3.marked[1]
    /\ ~FxLess(fig3.error_grid[<<63, 69>>], Tol5)
    /\ last.op = "verify_total_correction"
    /\ last.value

\* C14: verify_phi_pattern returns the errors of all 8 pairs, also after one
\* of them has missed, and returns true exactly when each of the 8 is
\* strictly below 1e-4; the errors it measures are those of correction i
\* against candidate i, |correction_i - (num_i / den_i) * phi^exp_i|, for
\* i = 0..7 (1..8 here), and with them it returns true.
PatternPairsAllEight ==
    last.op = "verify_phi_pattern" =>
        /\ Len(last.errors) = 8
        /\ last.value = (\A i \in 1..8 : FxLess(last.errors[i], Tol4))
        /\ last.errors \notin PatternErrors =>
              /\ \A i \in 1..8 :
                    last.errors[i] =
                        Distance(Correction(i),
                                 Approx(RATIONAL_APPROX[i], Limbs(PatternDps)))
              /\ last.value

\* The check has returned true on the errors it measures: 7.6e-08 for the
\* first pair and 2.77e-05, the largest, for the seventh.
PatternPairsAllEightWitness ==
    /\ last.op = "verify_phi_pattern"
    /\ last.value
    /\ FxLess(Float(0, <<0, 7, 6000>>), last.errors[1])
    /\ FxLess(last.errors[1], Float(0, <<0, 7, 7000>>))
    /\ FxLess(Float(0, <<0, 2768>>), last.errors[7])
    /\ FxLess(last.errors[7], Float(0, <<0, 2770>>))
    /\ \A i \in 1..8 : FxLess(last.errors[i], Float(0, <<0, 2770>>))

\* Corrections that are all zero.
ZeroCorrections == [i \in 1..8 |-> [neg |-> FALSE, digits |-> <<0>>]]

\* The sum evaluate_phi_bbp's loop reaches after n passes at precision p when
\* its corrections are zero, for the arguments the evaluators are called with.
Uncorrected ==
    {[n_terms |-> n, precision |-> p,
      sum |-> PhiBbpLoop(EffectiveCoefsWith(ZeroCorrections, Limbs(p)), n,
                         Limbs(p))] : n \in 0..MaxTerms, p \in PrecisionChoices}

\* C15: for n_terms >= 0 and every precision, evaluate_integer_only returns,
\* digit for digit, what evaluate_phi_bbp's loop and final division by 64
\* give when all 8 corrections are zero; the partial sums agree as well.
IntegerOnlyIsUncorrected ==
    /\ (last.op = "evaluate_integer_only" /\ last.n_terms >= 0) =>
          \E u \in Uncorrected :
              /\ u.n_terms = last.n_terms
              /\ u.precision = last.precision
              /\ last.value = FxDivInt(u.sum, 64)
    /\ (pc = "eval" /\ ev.fn = "evaluate_integer_only") =>
          \E u \in Uncorrected :
              /\ u.n_terms = ev.k
              /\ u.precision = ev.precision
              /\ ev.result = u.sum

\* evaluate_integer_only has returned the sum of two terms at 8 digits,
\* after evaluate_phi_bbp returned another value for the same arguments.
IntegerOnlyIsUncorrectedWitness ==
    /\ last.op = "evaluate_integer_only"
    /\ last.n_terms = 2
    /\ last.precision = 8
    /\ ~FxIsZero(last.value)
    /\ ref # NoCall
    /\ ref.op = "evaluate_phi_bbp"
    /\ ref.n_terms = 2
    /\ ref.precision = 8
    /\ ref.value # last.value
====
